---- MODULE Spec2Model ----
(***************************************************************************)
(* Verification model of the BERT pre-training data pipeline of            *)
(* my-pytorch-bert (src/mptb/pretrain_dataset.py, src/mptb/utils.py,       *)
(* src/mptb/tokenization_juman.py).                                        *)
(*                                                                         *)
(* Python lists are sequences; a Python position p (0-based) is the        *)
(* sequence index p + 1.  Document ordinals and document ids keep their    *)
(* 0-based Python values.                                                  *)
(*                                                                         *)
(* Specifications:                                                         *)
(*   TruncSpec / TruncFairSpec  the loop of truncate_seq_pair              *)
(*   EncSpec                    convert_example_to_features (both classes) *)
(*   ResumeSpec                 OneSegmentDataset pickle load / serve /    *)
(*                              dump_last_indices cycles                   *)
(*   LoadSpec                   PretrainDataset in-memory construction and *)
(*                              get_corpus_line                            *)
(*   GenSpec                    PretrainDataGeneration.generate            *)
(*   CacheSpec                  PreTensorPretrainDataset                   *)
(*   SampleSpec                 random_sent / get_random_line in memory    *)
(*   LazySpec                   PretrainDataset construction with          *)
(*                              on_memory=False                            *)
(*   TokSpec                    FullTokenizer.get_random_token_id          *)
(*   FetchSpec                  __getitem__ calls on a loaded dataset      *)
(*   StackSpec                  OneSegmentDataset built with               *)
(*                              sentence_stack=True                        *)
(*   LrSpec                     BertAdam.step scheduling with update_lr    *)
(***************************************************************************)
EXTENDS Integers, Sequences, FiniteSets, TLC

VARIABLES
    pc,               \* position of the running operation
    \* ---- convert_example_to_features (arguments, locals, result)
    mode,             \* "pair": PretrainDataset, "one": OneSegmentDataset
    tokens_a,
    tokens_b,
    is_next_label,
    max_pos,
    masked_lm_prob,   \* in percent
    max_words_length,
    tokens_a_ref,     \* where in all_documents the list passed as tokens_a is kept
    tokens_b_ref,     \* the same for tokens_b; <<>> for a list kept nowhere
    target_max_pos,
    tokens_a_ids,
    tokens_b_ids,
    tokens,
    mask_prediction,
    input_ids,
    segment_ids,
    input_mask,
    label_ids,
    touched,          \* history: positions the substitution rule was run on
    substituted,      \* history: positions whose id was overwritten
    \* ---- truncate_seq_pair
    max_length,
    \* ---- OneSegmentDataset resume cycle
    pickle_file,        \* the pickled list of documents
    indices,
    last_indices_file,  \* the "<pickle>.index" sidecar: <<>> when absent, else <<content>>
    steps,              \* items served since the last load
    served,             \* history: every ordinal served, in order, over all cycles
    cycles,
    \* ---- PretrainDataset in-memory store
    documents,        \* the input lines
    line_no,          \* number of input lines consumed
    all_documents,
    doc,
    sample_to_doc,
    corpus_lines,
    num_docs,
    current_doc,
    item,
    t1,
    t2,
    \* ---- get_random_line / random_sent
    current_random_doc,
    draws,            \* iterations of the loop of get_random_line begun
    rand_doc_idx,     \* the document of the last draw
    line,             \* the sentence of the last draw
    label,
    \* ---- PretrainDataGeneration.generate
    epochs,
    epoch,            \* e of the running "for e in range(epochs)"
    sampler,          \* the sampler's order not yet visited in this epoch
    epoch_files,      \* the records of file "<output_path>_<e>.pickle", per e
    \* ---- PreTensorPretrainDataset
    cache_file,       \* the records of the epoch file read
    file_pos,         \* records consumed from the open file
    length,
    last_step,
    fetched,          \* history: the tuples returned by __getitem__, in order
    \* ---- FullTokenizer
    vocab,            \* the vocabulary file's tokens, in file order
    tk_control_len,   \* FullTokenizer.control_len
    inv_vocab_len,    \* len(FullTokenizer.inv_vocab)
    random_id,        \* the last id returned by get_random_token_id
    \* ---- PretrainDataset read lazily from disk
    file,             \* self.file: lines consumed, -1 while not opened
    random_file,      \* self.random_file: lines consumed, -1 while not opened
    \* ---- OneSegmentDataset span masking
    mask_length,
    mask_candidate_words,  \* the chunks of candidate positions, as shuffled
    \* ---- OneSegmentDataset built from input lines
    stack,                 \* the tokens stacked for the next document
    \* ---- BertAdam and update_lr
    lr,               \* group['lr'], in units of 1e-5
    warmup_steps,
    max_steps,
    state_step,       \* state['step']
    lr_scheduled      \* the last rate update_lr returned, <<numerator, denominator>>

encVars == <<mode, tokens_a, tokens_b, is_next_label, max_pos, masked_lm_prob,
             max_words_length, tokens_a_ref, tokens_b_ref, target_max_pos, tokens_a_ids, tokens_b_ids,
             tokens, mask_prediction, input_ids, segment_ids, input_mask,
             label_ids, touched, substituted>>
truncVars == <<max_length>>
resumeVars == <<pickle_file, indices, last_indices_file, steps, served, cycles>>
loadVars == <<documents, line_no, all_documents, doc, sample_to_doc,
              corpus_lines, num_docs, current_doc, item, t1, t2>>
loadRest == <<documents, line_no, doc, sample_to_doc, corpus_lines, num_docs,
              current_doc, item, t1, t2>>
drawVars == <<current_random_doc, draws, rand_doc_idx, line, label>>
genVars == <<epochs, epoch, sampler, epoch_files>>
cacheVars == <<cache_file, file_pos, length, last_step, fetched>>
tokVars == <<vocab, tk_control_len, inv_vocab_len, random_id>>
lazyVars == <<file, random_file>>
optVars == <<lr, warmup_steps, max_steps, state_step, lr_scheduled>>
spanVars == <<mask_length, mask_candidate_words, stack>>
extVars == <<drawVars, genVars, cacheVars, tokVars, lazyVars, optVars, spanVars>>
vars == <<pc, encVars, truncVars, resumeVars, loadVars, extVars>>

----------------------------------------------------------------------------
(* Bounds of the model *)

MaxLenA == 3          \* longest first segment
MaxLenB == 2          \* longest second segment
MaxMaxPos == 5        \* largest max_pos
VocabSize == 7        \* number of vocabulary entries
MaxGeom == 3          \* largest geometric draw enumerated
MaxDocs == 3          \* most documents in the pickle
MaxCycles == 3        \* most load / serve / dump cycles
MaxLines == 5         \* most input lines of a corpus

(* Vocabulary: the control tokens first, then ordinary words *)
CONTROL_TOKENS == <<"[PAD]", "[UNK]", "[CLS]", "[SEP]", "[MASK]">>

pad_id == 0
cls_id == 2
sep_id == 3
mask_id == 4

(* the ordinary (non-control) ids used as input tokens: the last two *)
Words == (VocabSize - 2)..(VocabSize - 1)

SeqsUpTo(S, n) == UNION {[1..k -> S] : k \in 0..n}

Min(x, y) == IF x < y THEN x ELSE y

FrontOff(s) == Tail(s)

(* the list after list.pop() *)
Front(s) == SubSeq(s, 1, Len(s) - 1)

(* [x] * n *)
Repeat(x, n) == IF n <= 0 THEN <<>> ELSE [i \in 1..n |-> x]

RECURSIVE SumSeq(_)
SumSeq(s) == IF s = <<>> THEN 0 ELSE s[1] + SumSeq(Tail(s))

RECURSIVE Flatten(_)
Flatten(ss) == IF ss = <<>> THEN <<>> ELSE ss[1] \o Flatten(Tail(ss))

Range(s) == {s[i] : i \in DOMAIN s}

(* random.shuffle: any reordering of the list *)
Shuffle(s) == {[i \in 1..Len(s) |-> s[p[i]]] : p \in Permutations(1..Len(s))}

----------------------------------------------------------------------------
(* truncate_seq_pair (src/mptb/utils.py) *)

TruncBreakOff(a, b, L) == Len(a) + Len(b) <= L + 1

TruncBreak(a, b, L) == Len(a) + Len(b) <= L

TruncPopsAOnTie(a, b) == Len(a) >= Len(b)

(* if len(tokens_a) > len(tokens_b): tokens_a.pop() else: tokens_b.pop() *)
TruncPopsA(a, b) == Len(a) > Len(b)

(* The whole call: <<a, b, TRUE>> on return, <<a, b, FALSE>> when pop() *)
(* raises IndexError on an empty list.                                  *)
RECURSIVE truncate_seq_pair(_, _, _)
truncate_seq_pair(a, b, L) ==
    IF TruncBreak(a, b, L) THEN <<a, b, TRUE>>
    ELSE IF TruncPopsA(a, b) THEN truncate_seq_pair(Front(a), b, L)
    ELSE IF b = <<>> THEN <<a, b, FALSE>>
    ELSE truncate_seq_pair(a, Front(b), L)

----------------------------------------------------------------------------
(* Values of the variables an operation does not use *)

EncArgsIdle ==
    /\ mode = "none" /\ is_next_label = 0 /\ max_pos = 0
    /\ masked_lm_prob = 0 /\ max_words_length = 0
    /\ tokens_a_ref = <<>> /\ tokens_b_ref = <<>>

EncLocalsIdle ==
    /\ target_max_pos = 0 /\ tokens = <<>> /\ mask_prediction = 0
    /\ input_ids = <<>> /\ segment_ids = <<>> /\ input_mask = <<>>
    /\ label_ids = <<>> /\ touched = {} /\ substituted = {}

ResumeIdle ==
    /\ pickle_file = <<>> /\ indices = <<>> /\ last_indices_file = <<>> /\ steps = 0
    /\ served = <<>> /\ cycles = 0

LoadIdle ==
    /\ documents = <<>> /\ line_no = 0 /\ doc = <<>> /\ sample_to_doc = <<>>
    /\ corpus_lines = 0 /\ num_docs = 0 /\ current_doc = 0 /\ item = 0
    /\ t1 = <<>> /\ t2 = <<>>

DrawIdle ==
    /\ current_random_doc = 0 /\ draws = 0 /\ rand_doc_idx = 0
    /\ line = <<>> /\ label = 0

GenIdle == epochs = 0 /\ epoch = 0 /\ sampler = <<>> /\ epoch_files = <<>>

CacheIdle ==
    /\ cache_file = <<>> /\ file_pos = 0 /\ length = 0 /\ last_step = 0
    /\ fetched = <<>>

TokIdle == vocab = <<>> /\ tk_control_len = 0 /\ inv_vocab_len = 0 /\ random_id = 0

LazyIdle == file = -1 /\ random_file = -1

OptIdle ==
    /\ lr = 0 /\ warmup_steps = 0 /\ max_steps = 0 /\ state_step = 0
    /\ lr_scheduled = <<0, 1>>

SpanIdle == mask_length = 0 /\ mask_candidate_words = <<>> /\ stack = <<>>

ExtIdle == DrawIdle /\ GenIdle /\ CacheIdle /\ TokIdle /\ LazyIdle /\ OptIdle /\ SpanIdle

----------------------------------------------------------------------------
(* TruncSpec: the loop of truncate_seq_pair, one iteration per step.       *)
(* tokens_a, tokens_b hold the lists as passed in; tokens_a_ids and        *)
(* tokens_b_ids are the lists the loop pops from.                          *)

BelowZero == 2        \* max_length is tried from -BelowZero

TruncInit ==
    /\ pc = "trunc_loop"
    /\ tokens_a \in SeqsUpTo(Words, MaxLenA)
    /\ tokens_b \in SeqsUpTo(Words, MaxLenA)
    /\ tokens_a_ids = tokens_a
    /\ tokens_b_ids = tokens_b
    /\ max_length \in (-BelowZero)..(MaxLenA + MaxLenA)
    /\ EncArgsIdle /\ EncLocalsIdle /\ ResumeIdle /\ LoadIdle /\ ExtIdle
    /\ all_documents = <<>>

TruncReturn ==
    /\ pc = "trunc_loop"
    /\ TruncBreak(tokens_a_ids, tokens_b_ids, max_length)
    /\ pc' = "trunc_done"
    /\ UNCHANGED <<encVars, truncVars, extVars, resumeVars, loadVars>>

TruncPopA ==
    /\ pc = "trunc_loop"
    /\ ~TruncBreak(tokens_a_ids, tokens_b_ids, max_length)
    /\ TruncPopsA(tokens_a_ids, tokens_b_ids)
    /\ tokens_a_ids' = Front(tokens_a_ids)
    /\ UNCHANGED <<pc, mode, tokens_a, tokens_b, is_next_label, max_pos,
                   masked_lm_prob, max_words_length, tokens_a_ref,
                   tokens_b_ref, target_max_pos,
                   tokens_b_ids, tokens, mask_prediction, input_ids,
                   segment_ids, input_mask, label_ids, touched, substituted,
                   truncVars, extVars, resumeVars, loadVars>>

TruncPopB ==
    /\ pc = "trunc_loop"
    /\ ~TruncBreak(tokens_a_ids, tokens_b_ids, max_length)
    /\ ~TruncPopsA(tokens_a_ids, tokens_b_ids)
    /\ tokens_b_ids # <<>>
    /\ tokens_b_ids' = Front(tokens_b_ids)
    /\ UNCHANGED <<pc, mode, tokens_a, tokens_b, is_next_label, max_pos,
                   masked_lm_prob, max_words_length, tokens_a_ref,
                   tokens_b_ref, target_max_pos,
                   tokens_a_ids, tokens, mask_prediction, input_ids,
                   segment_ids, input_mask, label_ids, touched, substituted,
                   truncVars, extVars, resumeVars, loadVars>>

(* tokens_b.pop() on an empty list: IndexError *)
TruncPopEmpty ==
    /\ pc = "trunc_loop"
    /\ ~TruncBreak(tokens_a_ids, tokens_b_ids, max_length)
    /\ ~TruncPopsA(tokens_a_ids, tokens_b_ids)
    /\ tokens_b_ids = <<>>
    /\ pc' = "trunc_error"
    /\ UNCHANGED <<encVars, truncVars, extVars, resumeVars, loadVars>>

TruncNext == TruncReturn \/ TruncPopA \/ TruncPopB \/ TruncPopEmpty

TruncSpec == TruncInit /\ [][TruncNext]_vars

(* The loop is straight-line code: it keeps running until it returns or raises *)
TruncFairSpec == TruncSpec /\ WF_vars(TruncNext)

(* C3: for max_length >= 0 the call returns, and on return                 *)
(* len(a) + len(b) <= max_length; a call entered with                      *)
(* len(a) + len(b) <= max_length returns both lists as they were passed.   *)
C3_TruncateTerminates ==
    /\ [](pc = "trunc_done" =>
            /\ Len(tokens_a_ids) + Len(tokens_b_ids) <= max_length
            /\ (Len(tokens_a) + Len(tokens_b) <= max_length =>
                    tokens_a_ids = tokens_a /\ tokens_b_ids = tokens_b))
    /\ [](pc = "trunc_error" => max_length < 0)
    /\ (max_length >= 0 ~> pc = "trunc_done")

(* a call that had to pop has returned *)
C3_Witness ==
    /\ pc = "trunc_done"
    /\ max_length >= 0
    /\ Len(tokens_a) + Len(tokens_b) > max_length
    /\ Len(tokens_a_ids) + Len(tokens_b_ids) = max_length

----------------------------------------------------------------------------
(* Tokenizer adapter (src/mptb/tokenization_juman.py) *)

(* Python == between tagged values: an int never equals a str *)
PyEq(x, y) == x[1] = y[1] /\ x[2] = y[2]

(* FullTokenizer.__init__: counts the vocab values v with v in control_tokens; *)
(* v is the integer index of the word, control_tokens holds strings            *)
control_len ==
    Cardinality({v \in 0..(VocabSize - 1) :
        \E i \in DOMAIN CONTROL_TOKENS :
            PyEq(<<"int", v>>, <<"str", CONTROL_TOKENS[i]>>)})

(* get_random_token_id: randint(control_len + 1, len(inv_vocab) - 1) *)
get_random_token_id == (control_len + 1)..(VocabSize - 1)

----------------------------------------------------------------------------
(* convert_example_to_features: helpers *)

(* Python round(): to nearest, ties to even; num >= 0, den > 0 *)
RoundHalfEven(num, den) ==
    LET q == num \div den
        r == num % den
    IN  IF 2 * r < den THEN q
        ELSE IF 2 * r > den THEN q + 1
        ELSE IF q % 2 = 0 THEN q ELSE q + 1

(* int(round(len(tokens) * masked_lm_prob)), masked_lm_prob in percent *)
MaskPrediction(n, prob) == RoundHalfEven(n * prob, 100)

(* the members of a set of positions in increasing order *)
RECURSIVE Ascending(_)
Ascending(S) ==
    IF S = {} THEN <<>>
    ELSE LET m == CHOOSE x \in S : \A y \in S : x <= y
         IN  <<m>> \o Ascending(S \ {m})

mask_candidate_pos_with_cls(toks) ==
    Ascending({i \in DOMAIN toks : toks[i] # sep_id})

(* [i for i, token in enumerate(tokens) if token != cls_id and token != sep_id] *)
mask_candidate_pos(toks) ==
    Ascending({i \in DOMAIN toks : toks[i] # cls_id /\ toks[i] # sep_id})

(* s[:k] for k >= 0 *)
Prefix(s, k) == SubSeq(s, 1, Min(k, Len(s)))

(* The 80/10/10 rule at one position: which branch ran and the id written *)
Outcomes ==
    {<<"mask", mask_id>>} \cup {<<"random", r>> : r \in get_random_token_id}
        \cup {<<"keep", -1>>}

(* tokens after the rule ran on the positions sel[1..] with outcomes choice[1..] *)
Substitute(toks, sel, choice) ==
    [i \in DOMAIN toks |->
        IF \E j \in DOMAIN sel : sel[j] = i /\ choice[j][1] # "keep"
        THEN LET j == CHOOSE j \in DOMAIN sel : sel[j] = i IN choice[j][2]
        ELSE toks[i]]

Overwritten(sel, choice) == {sel[j] : j \in {k \in DOMAIN sel : choice[k][1] # "keep"}}

PD_AppendOneSep(b) == Append(b, sep_id)

(* PretrainDataset: tokens_b_ids.append(sep_id); if len(tokens_b_ids) != 0: *)
(* tokens_b_ids.append(sep_id) else: tokens_b_ids = []                      *)
PD_AppendSep(b) ==
    LET b1 == Append(b, sep_id)
    IN  IF Len(b1) # 0 THEN Append(b1, sep_id) ELSE <<>>

(* target_max_pos = max_pos - 3 if tokens_b else max_pos - 2 *)
PD_Target(b, mp) == IF b # <<>> THEN mp - 3 ELSE mp - 2

OS_Target(mp) == mp - 2

(* if random() < short_seq_prob: target_max_pos = randint(2, target_max_pos) *)
ShortTargets(short, base) == IF short THEN 2..base ELSE {base}

InputMaskOnes(n, pad) == Repeat(1, n + pad)

(* input_mask = [1]*len(input_ids); input_mask.extend([0]*num_zero_pad) *)
InputMask(n, pad) == Repeat(1, n) \o Repeat(0, pad)

(* np.array_split(ary, n), n >= 1: the first len % n parts hold one more *)
ArraySplit(s, n) ==
    LET q == Len(s) \div n
        e == Len(s) % n
        start(i) == (i - 1) * q + Min(i - 1, e)
    IN  [i \in 1..n |->
            SubSeq(s, start(i) + 1, start(i) + q + (IF i <= e THEN 1 ELSE 0))]

ClampMaskLengthWords(g, mwl, mp) == IF g > mwl THEN mwl ELSE g

(* mask_length: the geometric draw clamped to max_words_length, then to *)
(* mask_prediction                                                      *)
ClampMaskLength(g, mwl, mp) ==
    LET m == IF g > mwl THEN mwl ELSE g
    IN  IF m > mp THEN mp ELSE m

(* inner loop "for pos in words": <<positions visited, masked>> *)
RECURSIVE VisitWords(_, _, _)
VisitWords(words, masked, mp) ==
    IF words = <<>> THEN <<<<>>, masked>>
    ELSE LET m == masked + 1
         IN  IF m = mp THEN <<<<words[1]>>, m>>
             ELSE LET r == VisitWords(Tail(words), m, mp)
                  IN  <<<<words[1]>> \o r[1], r[2]>>

(* outer loop "for words in mask_candidate_words": positions visited *)
RECURSIVE VisitChunks(_, _, _)
VisitChunks(chunks, masked, mp) ==
    IF chunks = <<>> THEN <<>>
    ELSE LET r == VisitWords(chunks[1], masked, mp)
         IN  IF r[2] = mp THEN r[1]
             ELSE r[1] \o VisitChunks(Tail(chunks), r[2], mp)

----------------------------------------------------------------------------
(* EncSpec: one call of convert_example_to_features, in three steps:       *)
(* prepare (truncate, special tokens, mask count), mask, pad and return.   *)

MinMaxPos == 1                 \* smallest max_pos
MaskProbs == {15, 30}          \* masked_lm_prob values tried, in percent
WordsLengths == {2, 10}        \* max_words_length values tried

EncInit ==
    /\ pc = "enc_start"
    /\ mode \in {"pair", "one"}
    /\ tokens_a \in SeqsUpTo(Words, MaxLenA)
    /\ tokens_b \in (IF mode = "pair" THEN SeqsUpTo(Words, MaxLenB) ELSE {<<>>})
    /\ is_next_label \in (IF mode = "pair" THEN {0, 1} ELSE {0})
    /\ max_pos \in MinMaxPos..MaxMaxPos
    /\ masked_lm_prob \in MaskProbs
    /\ max_words_length \in (IF mode = "one" THEN WordsLengths ELSE {0})
    /\ tokens_a_ref = <<>> /\ tokens_b_ref = <<>>
    /\ tokens_a_ids = <<>> /\ tokens_b_ids = <<>>
    /\ EncLocalsIdle
    /\ max_length = 0
    /\ ResumeIdle /\ LoadIdle /\ ExtIdle
    /\ all_documents = <<>>

(* Lists are objects. A reference names the place of all_documents that   *)
(* keeps a list: <<d>> for Document d of OneSegmentDataset, <<d, l>> for  *)
(* sentence l of Document d of PretrainDataset, NoRef for a list that no  *)
(* Document keeps. An operation in place on a list changes what every     *)
(* holder of the list sees.                                               *)
NoRef == <<>>

sharing_copy(ref) == ref

(* copy.copy(list): a new list with the same elements, kept nowhere *)
copy_copy(ref) == NoRef

(* the store after an operation in place left the list at ref as v *)
InPlace(docs, ref, v) ==
    IF ref = NoRef THEN docs
    ELSE IF Len(ref) = 1 THEN [docs EXCEPT ![ref[1]] = v]
    ELSE [docs EXCEPT ![ref[1]][ref[2]] = v]

encArgs == <<mode, tokens_a, tokens_b, is_next_label, max_pos, masked_lm_prob,
             max_words_length, tokens_a_ref, tokens_b_ref>>
encResult == <<input_ids, segment_ids, input_mask, label_ids>>

(* PretrainDataset.convert_example_to_features, lines 422-445 *)
PD_Prepare ==
    /\ pc = "enc_start" /\ mode = "pair"
    /\ \E short \in BOOLEAN :
       \E target \in ShortTargets(short, PD_Target(tokens_b, max_pos)) :
         LET r == truncate_seq_pair(tokens_a, tokens_b, target)
             a_ids == <<cls_id>> \o r[1]
             b_ids == PD_AppendSep(r[2])
         IN  /\ r[3]
             /\ target_max_pos' = target
             /\ tokens_a_ids' = a_ids
             /\ tokens_b_ids' = b_ids
             /\ tokens' = a_ids \o b_ids
             /\ segment_ids' = Repeat(0, Len(a_ids)) \o Repeat(1, Len(b_ids))
             /\ mask_prediction' = MaskPrediction(Len(a_ids \o b_ids), masked_lm_prob)
             \* pop, insert and append act on the lists of lines 424-425,
             \* extend on the list of line 439
             /\ all_documents' =
                  InPlace(InPlace(InPlace(all_documents,
                                          copy_copy(tokens_a_ref), a_ids),
                                  copy_copy(tokens_b_ref), b_ids),
                          copy_copy(copy_copy(tokens_a_ref)), a_ids \o b_ids)
    /\ pc' = "enc_mask"
    /\ UNCHANGED <<encArgs, input_ids, input_mask, label_ids, touched,
                   substituted, truncVars, extVars, resumeVars, loadRest>>

(* randint(2, target_max_pos) over an empty range raises ValueError;  *)
(* truncate_seq_pair raises IndexError when it pops an empty list     *)
PD_PrepareRaises ==
    /\ pc = "enc_start" /\ mode = "pair"
    /\ \/ PD_Target(tokens_b, max_pos) < 2
       \/ ~truncate_seq_pair(tokens_a, tokens_b, PD_Target(tokens_b, max_pos))[3]
    /\ pc' = "enc_error"
    /\ UNCHANGED <<encVars, truncVars, extVars, resumeVars, loadVars>>

(* lines 447-455: shuffle the candidates, run the rule on the first *)
(* mask_prediction of them                                          *)
PD_Mask ==
    /\ pc = "enc_mask" /\ mode = "pair"
    /\ \E shuffled \in Shuffle(mask_candidate_pos(tokens)) :
         LET sel == Prefix(shuffled, mask_prediction)
         IN  \E choice \in [DOMAIN sel -> Outcomes] :
               /\ tokens' = Substitute(tokens, sel, choice)
               /\ touched' = Range(sel)
               /\ substituted' = Overwritten(sel, choice)
    \* tokens[pos] = ... assigns into the list of line 439
    /\ all_documents' = InPlace(all_documents,
                                copy_copy(copy_copy(tokens_a_ref)), tokens')
    /\ pc' = "enc_pad"
    /\ UNCHANGED <<encArgs, target_max_pos, tokens_a_ids, tokens_b_ids,
                   segment_ids, mask_prediction, encResult, truncVars, extVars,
                   resumeVars, loadRest>>

(* lines 457-468 *)
PD_Pad ==
    /\ pc = "enc_pad" /\ mode = "pair"
    /\ LET num_zero_pad == max_pos - Len(tokens)
       IN  /\ input_ids' = tokens \o Repeat(pad_id, num_zero_pad)
           /\ segment_ids' = segment_ids \o Repeat(0, num_zero_pad)
           /\ input_mask' = InputMask(Len(tokens), num_zero_pad)
           /\ label_ids' = (tokens_a_ids \o tokens_b_ids) \o Repeat(pad_id, num_zero_pad)
    \* input_ids = tokens is the list of line 439, extended in place
    /\ all_documents' = InPlace(all_documents,
                                copy_copy(copy_copy(tokens_a_ref)), input_ids')
    /\ pc' = "enc_done"
    /\ UNCHANGED <<encArgs, target_max_pos, tokens_a_ids, tokens_b_ids, tokens,
                   mask_prediction, touched, substituted, truncVars, extVars,
                   resumeVars, loadRest>>

(* OneSegmentDataset.convert_example_to_features, lines 148-163 *)
OS_Prepare ==
    /\ pc = "enc_start" /\ mode = "one"
    /\ \E short \in BOOLEAN :
       \E target \in ShortTargets(short, OS_Target(max_pos)) :
         LET r == truncate_seq_pair(tokens_a, <<>>, target)
             a_ids == (<<cls_id>> \o r[1]) \o <<sep_id>>
         IN  /\ r[3]
             /\ target_max_pos' = target
             /\ tokens_a_ids' = a_ids
             /\ tokens' = a_ids
             /\ mask_prediction' = MaskPrediction(Len(a_ids), masked_lm_prob)
             \* truncate_seq_pair pops from the list of line 150; lines
             \* 157-160 build new lists
             /\ all_documents' = InPlace(all_documents,
                                         copy_copy(tokens_a_ref), r[1])
    /\ pc' = "enc_mask"
    /\ UNCHANGED <<encArgs, tokens_b_ids, encResult, touched, substituted,
                   truncVars, extVars, resumeVars, loadRest>>

OS_PrepareRaises ==
    /\ pc = "enc_start" /\ mode = "one"
    /\ \/ OS_Target(max_pos) < 2
       \/ ~truncate_seq_pair(tokens_a, <<>>, OS_Target(max_pos))[3]
    /\ pc' = "enc_error"
    /\ UNCHANGED <<encVars, truncVars, extVars, resumeVars, loadVars>>

(* lines 164-188: span masking *)
OS_Mask ==
    /\ pc = "enc_mask" /\ mode = "one"
    /\ \E g \in 1..MaxGeom :
         LET cand == mask_candidate_pos(tokens)
             ml == ClampMaskLength(g, max_words_length, mask_prediction)
         IN  /\ mask_length' = ml
             /\ IF ml > 0
                THEN /\ Len(cand) \div ml > 0
                     /\ \E words \in Shuffle(ArraySplit(cand, Len(cand) \div ml)) :
                          LET sel == VisitChunks(words, 0, mask_prediction)
                          IN  \E choice \in [DOMAIN sel -> Outcomes] :
                                /\ mask_candidate_words' = words
                                /\ tokens' = Substitute(tokens, sel, choice)
                                /\ touched' = Range(sel)
                                /\ substituted' = Overwritten(sel, choice)
                ELSE UNCHANGED <<tokens, touched, substituted, mask_candidate_words>>
    /\ pc' = "enc_pad"
    /\ UNCHANGED <<encArgs, target_max_pos, tokens_a_ids, tokens_b_ids,
                   segment_ids, mask_prediction, encResult, truncVars,
                   drawVars, genVars, cacheVars, tokVars, lazyVars, optVars, stack,
                   resumeVars, loadVars>>

(* np.array_split with int(len(mask_candidate_pos) / mask_length) = 0 *)
(* sections raises ValueError                                         *)
OS_SplitRaises ==
    /\ pc = "enc_mask" /\ mode = "one"
    /\ \E g \in 1..MaxGeom :
         LET ml == ClampMaskLength(g, max_words_length, mask_prediction)
         IN  /\ ml > 0
             /\ Len(mask_candidate_pos(tokens)) \div ml = 0
             /\ mask_length' = ml
    /\ pc' = "enc_split_error"
    /\ UNCHANGED <<encVars, truncVars, drawVars, genVars, cacheVars, tokVars,
                   lazyVars, optVars, mask_candidate_words, stack, resumeVars, loadVars>>

(* lines 190-198: return [input_ids, [], [], [], label_ids] *)
OS_Pad ==
    /\ pc = "enc_pad" /\ mode = "one"
    /\ LET num_zero_pad == max_pos - Len(tokens)
       IN  /\ input_ids' = tokens \o Repeat(pad_id, num_zero_pad)
           /\ label_ids' = tokens_a_ids \o Repeat(pad_id, num_zero_pad)
           /\ segment_ids' = <<>>
           /\ input_mask' = <<>>
    /\ pc' = "enc_done"
    /\ UNCHANGED <<encArgs, target_max_pos, tokens_a_ids, tokens_b_ids, tokens,
                   mask_prediction, touched, substituted, truncVars, extVars,
                   resumeVars, loadVars>>

EncNext ==
    \/ PD_Prepare \/ PD_PrepareRaises \/ PD_Mask \/ PD_Pad
    \/ OS_Prepare \/ OS_PrepareRaises \/ OS_Mask \/ OS_SplitRaises \/ OS_Pad

EncSpec == EncInit /\ [][EncNext]_vars

----------------------------------------------------------------------------
(* Claims about the Feature (EncSpec) *)

IsPrefix(p, s) == Len(p) <= Len(s) /\ p = SubSeq(s, 1, Len(p))

(* input_ids without CLS, SEP and padding *)
StripSpecial(ids) ==
    LET Ordinary(x) == x # cls_id /\ x # sep_id /\ x # pad_id
    IN  SelectSeq(ids, Ordinary)

(* number of tokens present before padding: CLS + segment tokens + SEPs *)
TokensBeforePadding == Len(tokens_a_ids) + Len(tokens_b_ids)

(* C1: every Feature returned by either encoder has input_ids, segment_ids, *)
(* input_mask and label_ids each of length exactly max_pos.                 *)
C1_FeatureLengths ==
    pc = "enc_done" =>
        /\ Len(input_ids) = max_pos
        /\ Len(segment_ids) = max_pos
        /\ Len(input_mask) = max_pos
        /\ Len(label_ids) = max_pos

(* C2 as stated: in every Feature of either mode, sum(input_mask) is the   *)
(* number of tokens before padding, input_mask is 1 on exactly those       *)
(* leading positions, and every later position holds PAD in input_ids and  *)
(* 0 in input_mask and segment_ids.                                        *)
MaskMatchesTokens ==
    /\ SumSeq(input_mask) = TokensBeforePadding
    /\ Len(input_mask) = Len(input_ids)
    /\ Len(segment_ids) = Len(input_ids)
    /\ \A i \in DOMAIN input_ids :
          IF i <= TokensBeforePadding
          THEN input_mask[i] = 1
          ELSE input_ids[i] = pad_id /\ input_mask[i] = 0 /\ segment_ids[i] = 0

C4_MaskedAtMostMaskCount ==
    pc \in {"enc_pad", "enc_done"} =>
        /\ Cardinality(touched) <= RoundHalfEven(TokensBeforePadding * masked_lm_prob, 100)
        /\ touched \subseteq DOMAIN tokens

(* span mode stopped at mask_count although candidates were left *)
C4_Witness ==
    /\ pc = "enc_done" /\ mode = "one"
    /\ Cardinality(touched) = 2
    /\ RoundHalfEven(TokensBeforePadding * masked_lm_prob, 100) = 2
    /\ Len(mask_candidate_pos(tokens_a_ids)) > 2

(* C5 as stated: when the masking step substitutes nothing, input_ids      *)
(* without CLS, SEP and padding is tokens_a ++ tokens_b.                   *)
C5_RoundTripAlways ==
    pc = "enc_done" /\ mode = "pair" /\ substituted = {} =>
        StripSpecial(input_ids) = tokens_a \o tokens_b

(* C5 (amended): when the masking step substitutes nothing, input_ids      *)
(* without CLS, SEP and padding is a prefix of tokens_a followed by a      *)
(* prefix of tokens_b; it is tokens_a ++ tokens_b whenever                 *)
(* len(tokens_a) + len(tokens_b) is at most the target length in effect,   *)
(* and has exactly the target length otherwise.                            *)
C5_RoundTrip ==
    pc = "enc_done" /\ mode = "pair" /\ substituted = {} =>
        \E la \in 0..Len(tokens_a) : \E lb \in 0..Len(tokens_b) :
            /\ StripSpecial(input_ids) = SubSeq(tokens_a, 1, la) \o SubSeq(tokens_b, 1, lb)
            /\ IF Len(tokens_a) + Len(tokens_b) <= target_max_pos
               THEN la = Len(tokens_a) /\ lb = Len(tokens_b)
               ELSE la + lb = target_max_pos

(* a truncated pair went through the masking step unchanged *)
C5_Witness ==
    /\ pc = "enc_done" /\ mode = "pair" /\ substituted = {}
    /\ touched # {}
    /\ tokens_b # <<>>
    /\ Len(tokens_a) + Len(tokens_b) > target_max_pos
    /\ Len(StripSpecial(input_ids)) = target_max_pos

----------------------------------------------------------------------------
(* ResumeSpec: OneSegmentDataset built from a pickle, served in index      *)
(* order and closed with dump_last_indices(steps); the next process loads  *)
(* again.                                                                  *)

(* list(dict.fromkeys(s)): first occurrences, in order *)
RECURSIVE DictFromKeys(_)
DictFromKeys(s) ==
    IF s = <<>> THEN <<>>
    ELSE LET rest == DictFromKeys(Front(s))
             x == s[Len(s)]
         IN  IF x \in Range(rest) THEN rest ELSE Append(rest, x)

(* list(range(n)) *)
PyRange(n) == [i \in 1..n |-> i - 1]

LoadedOrderKeepAll(last_indices, shuffled) == last_indices \o shuffled

(* self.indices = list(dict.fromkeys(last_indices + self.indices)) *)
LoadedOrder(last_indices, shuffled) == DictFromKeys(last_indices \o shuffled)

DumpedSuffixOff(ind, st) == SubSeq(ind, (st % Len(ind)) + 2, Len(ind))

(* self.indices[steps % len(self.indices):] *)
DumpedSuffix(ind, st) == SubSeq(ind, (st % Len(ind)) + 1, Len(ind))

ResumeInit ==
    /\ pc = "rs_closed"
    /\ \E n \in 0..MaxDocs : pickle_file = [i \in 1..n |-> <<5, 6>>]
    /\ indices = <<>> /\ last_indices_file = <<>> /\ steps = 0
    /\ served = <<>> /\ cycles = 0
    /\ all_documents = <<>>
    /\ EncArgsIdle /\ EncLocalsIdle /\ LoadIdle /\ ExtIdle
    /\ tokens_a = <<>> /\ tokens_b = <<>>
    /\ tokens_a_ids = <<>> /\ tokens_b_ids = <<>>
    /\ max_length = 0

(* OneSegmentDataset.__init__ with pickle_path, lines 57-73 *)
OS_LoadPickle ==
    /\ pc = "rs_closed"
    /\ cycles < MaxCycles
    /\ all_documents' = pickle_file
    /\ \E shuffled \in Shuffle(PyRange(Len(pickle_file))) :
         indices' = IF last_indices_file # <<>>
                    THEN LoadedOrder(last_indices_file[1], shuffled)
                    ELSE shuffled
    /\ steps' = 0
    /\ cycles' = cycles + 1
    /\ pc' = "rs_open"
    /\ UNCHANGED <<pickle_file, last_indices_file, served, encVars, truncVars, extVars,
                   documents, line_no, doc, sample_to_doc, corpus_lines,
                   num_docs, current_doc, item, t1, t2>>

(* __getitem__(steps): the next item in order reads                  *)
(* all_documents[indices[item]]                                      *)
OS_GetItem ==
    /\ pc = "rs_open"
    /\ steps < Len(indices)
    /\ served' = Append(served, indices[steps + 1])
    /\ steps' = steps + 1
    /\ UNCHANGED <<pc, pickle_file, indices, last_indices_file, cycles,
                   encVars, truncVars, extVars, loadVars>>

(* dump_last_indices(steps), lines 93-97; the process then ends *)
OS_DumpLastIndices ==
    /\ pc = "rs_open"
    /\ Len(indices) # 0
    /\ last_indices_file' = <<DumpedSuffix(indices, steps)>>
    /\ pc' = "rs_closed"
    /\ UNCHANGED <<pickle_file, indices, steps, served, cycles, encVars,
                   truncVars, extVars, loadVars>>

(* steps % len(self.indices) with no documents: ZeroDivisionError *)
OS_DumpRaises ==
    /\ pc = "rs_open"
    /\ Len(indices) = 0
    /\ pc' = "rs_error"
    /\ UNCHANGED <<encVars, truncVars, extVars, resumeVars, loadVars>>

ResumeNext == OS_LoadPickle \/ OS_GetItem \/ OS_DumpLastIndices \/ OS_DumpRaises

ResumeSpec == ResumeInit /\ [][ResumeNext]_vars

IsPermutationOf(s, S) ==
    /\ Range(s) = S
    /\ \A i, j \in DOMAIN s : i # j => s[i] # s[j]

(* the ordinals served since the last load *)
ServedThisCycle == Range(SubSeq(served, Len(served) - steps + 1, Len(served)))

(* the index order without the ordinals served since the last load *)
NotServedThisCycle ==
    LET Unserved(x) == x \notin ServedThisCycle
    IN  SelectSeq(indices, Unserved)

(* C6: after a load from a pickle of N documents the index order is a      *)
(* permutation of 0..N-1, and it starts with the sidecar's content in the  *)
(* sidecar's order when a sidecar written by dump_last_indices exists.     *)
C6_ReloadedOrderIsPermutation ==
    pc = "rs_open" =>
        /\ IsPermutationOf(indices, 0..(Len(pickle_file) - 1))
        /\ (last_indices_file # <<>> => IsPrefix(last_indices_file[1], indices))

(* loaded with a sidecar that holds some, not all, of the ordinals *)
C6_Witness ==
    /\ pc = "rs_open"
    /\ last_indices_file # <<>>
    /\ Len(last_indices_file[1]) > 0
    /\ Len(last_indices_file[1]) < Len(pickle_file)
    /\ Len(indices) = Len(pickle_file)

(* no ordinal is served a second time before every ordinal was served once *)
NoEarlyRepeat ==
    \A i, j \in 1..Min(Len(served), Len(pickle_file)) :
        i # j => served[i] # served[j]

(* C7 as stated: over any sequence of cycles the sidecar written holds     *)
(* exactly the ordinals not served in that cycle, in that cycle's order,   *)
(* and no ordinal is served twice before every ordinal was served once.    *)
C7_SidecarIsUnservedAlways ==
    /\ (pc = "rs_closed" /\ cycles > 0 => last_indices_file = <<NotServedThisCycle>>)
    /\ NoEarlyRepeat

(* C7 (amended): the same for a cycle that served k < N items; a cycle     *)
(* that served all N items writes the whole index order (N % N = 0).       *)
C7_SidecarIsUnserved ==
    /\ (pc = "rs_closed" /\ cycles > 0 =>
            last_indices_file =
                <<IF steps < Len(indices) THEN NotServedThisCycle ELSE indices>>)
    /\ NoEarlyRepeat

(* a later cycle stopped part-way after more than N items were served *)
C7_Witness ==
    /\ pc = "rs_closed"
    /\ cycles >= 2
    /\ Len(served) > Len(pickle_file)
    /\ steps > 0 /\ steps < Len(indices)

----------------------------------------------------------------------------
(* LoadSpec: PretrainDataset built in memory from a sequence of input      *)
(* lines (one _load_text call per step), then get_corpus_line fetches.     *)

LineTexts == {"", " ", "a", "b"}     \* input lines tried

(* text.strip() *)
Strip(text) == IF text = " " THEN "" ELSE text

(* tokenizer.convert_tokens_to_ids(tokenizer.tokenize(text)) *)
TokenIds(text) == IF text = "a" THEN <<5>> ELSE <<6, 5>>

Sample(d, l) == [doc_id |-> d, line |-> l]

CloseDocumentKeepSample(docs, d, samples) ==
    IF Len(d) > 0 THEN <<Append(docs, d), samples>> ELSE <<docs, samples>>

(* if len(doc) > 0: self.all_documents.append(doc); self.sample_to_doc.pop() *)
CloseDocument(docs, d, samples) ==
    IF Len(d) > 0 THEN <<Append(docs, d), Front(samples)>> ELSE <<docs, samples>>

(* __len__: corpus_lines - num_docs - 1 *)
PD_Len == corpus_lines - num_docs - 1

(* list[i] with Python's negative indices: <<TRUE, element>>, or <<FALSE>> *)
(* for IndexError                                                          *)
PyIndex(s, i) ==
    IF i >= 0 /\ i < Len(s) THEN <<TRUE, s[i + 1]>>
    ELSE IF i < 0 /\ -i <= Len(s) THEN <<TRUE, s[Len(s) + i + 1]>>
    ELSE <<FALSE>>

ItemsTried == (-MaxLines)..(MaxLines + 1)

LoadInit ==
    /\ pc = "ld_loading"
    /\ documents \in SeqsUpTo(LineTexts, MaxLines)
    /\ line_no = 0
    /\ all_documents = <<>>
    /\ doc = <<>>
    /\ sample_to_doc = <<>>
    /\ corpus_lines = 0 /\ num_docs = 0 /\ current_doc = 0
    /\ item = 0 /\ t1 = <<>> /\ t2 = <<>>
    /\ EncArgsIdle /\ EncLocalsIdle /\ ResumeIdle /\ ExtIdle
    /\ tokens_a = <<>> /\ tokens_b = <<>>
    /\ tokens_a_ids = <<>> /\ tokens_b_ids = <<>>
    /\ max_length = 0

(* PretrainDataset._load_text on the next input line, lines 273-288 *)
PD_LoadText ==
    /\ pc = "ld_loading"
    /\ line_no < Len(documents)
    /\ line_no' = line_no + 1
    /\ LET text == Strip(documents[line_no + 1])
       IN  IF text = ""
           THEN LET r == CloseDocument(all_documents, doc, sample_to_doc)
                IN  /\ all_documents' = r[1]
                    /\ sample_to_doc' = r[2]
                    /\ doc' = IF Len(doc) > 0 THEN <<>> ELSE doc
                    /\ UNCHANGED corpus_lines
           ELSE /\ sample_to_doc' = Append(sample_to_doc,
                                           Sample(Len(all_documents), Len(doc)))
                /\ doc' = Append(doc, TokenIds(text))
                /\ corpus_lines' = corpus_lines + 1
                /\ UNCHANGED all_documents
    /\ UNCHANGED <<pc, documents, num_docs, current_doc, item, t1, t2,
                   encVars, truncVars, extVars, resumeVars>>

(* end of input, lines 247-255: commit the open document, set num_docs *)
PD_Construct ==
    /\ pc = "ld_loading"
    /\ line_no = Len(documents)
    /\ LET r == CloseDocument(all_documents, doc, sample_to_doc)
       IN  /\ Len(r[1]) # 0
           /\ all_documents' = r[1]
           /\ sample_to_doc' = r[2]
           /\ num_docs' = Len(r[1])
    /\ pc' = "ld_ready"
    /\ UNCHANGED <<documents, line_no, doc, corpus_lines, current_doc, item,
                   t1, t2, encVars, truncVars, extVars, resumeVars>>

(* no document: ValueError (lines 214-215 and 254-255) *)
PD_ConstructRaises ==
    /\ pc = "ld_loading"
    /\ line_no = Len(documents)
    /\ Len(CloseDocument(all_documents, doc, sample_to_doc)[1]) = 0
    /\ pc' = "ld_error"
    /\ UNCHANGED <<encVars, truncVars, extVars, resumeVars, loadVars>>

(* get_corpus_line(item) returns: the assertion item < corpus_lines holds, *)
(* sample_to_doc[item] exists and so does the line after it               *)
CorpusLineFound(it) ==
    LET sample == PyIndex(sample_to_doc, it)
    IN  IF ~(it < corpus_lines) THEN FALSE
        ELSE IF ~sample[1] THEN FALSE
        ELSE sample[2].line + 2 <= Len(all_documents[sample[2].doc_id + 1])

(* get_corpus_line(item) on the in-memory store, lines 326-345 *)
PD_GetCorpusLine ==
    /\ pc \in {"ld_ready", "ld_fetched"}
    /\ \E it \in ItemsTried :
         /\ CorpusLineFound(it)
         /\ LET sample == PyIndex(sample_to_doc, it)[2]
            IN  /\ item' = it
                /\ t1' = all_documents[sample.doc_id + 1][sample.line + 1]
                /\ t2' = all_documents[sample.doc_id + 1][sample.line + 2]
                /\ current_doc' = sample.doc_id
    /\ pc' = "ld_fetched"
    /\ UNCHANGED <<documents, line_no, all_documents, doc, sample_to_doc,
                   corpus_lines, num_docs, encVars, truncVars, extVars, resumeVars>>

(* AssertionError for item >= corpus_lines, IndexError from a list *)
PD_GetCorpusLineRaises ==
    /\ pc \in {"ld_ready", "ld_fetched"}
    /\ \E it \in ItemsTried :
         /\ ~CorpusLineFound(it)
         /\ item' = it
    /\ pc' = "ld_fetch_error"
    /\ UNCHANGED <<documents, line_no, all_documents, doc, sample_to_doc,
                   corpus_lines, num_docs, current_doc, t1, t2, encVars,
                   truncVars, extVars, resumeVars>>

LoadNext ==
    \/ PD_LoadText \/ PD_Construct \/ PD_ConstructRaises
    \/ PD_GetCorpusLine \/ PD_GetCorpusLineRaises

LoadSpec == LoadInit /\ [][LoadNext]_vars

----------------------------------------------------------------------------
(* Claims about the in-memory store (LoadSpec) *)

NonBlank(i) == Strip(documents[i]) # ""

(* first lines of the maximal runs of non-blank input lines, in order *)
RunStarts ==
    Ascending({i \in DOMAIN documents :
                  NonBlank(i) /\ (i = 1 \/ ~NonBlank(i - 1))})

(* last line of the run that starts at line i *)
RunEnd(i) ==
    CHOOSE j \in i..Len(documents) :
        /\ \A k \in i..j : NonBlank(k)
        /\ (j = Len(documents) \/ ~NonBlank(j + 1))

(* the maximal runs of non-blank lines as Documents, in input order *)
ExpectedDocuments ==
    [d \in 1..Len(RunStarts) |->
        [l \in 1..(RunEnd(RunStarts[d]) - RunStarts[d] + 1) |->
            TokenIds(Strip(documents[RunStarts[d] + l - 1]))]]

(* the locators of the sentences that are not the last of their Document *)
ExpectedSamples ==
    Flatten([d \in 1..Len(ExpectedDocuments) |->
                [l \in 1..(Len(ExpectedDocuments[d]) - 1) |-> Sample(d - 1, l - 1)]])

Constructed == pc \in {"ld_ready", "ld_fetched", "ld_fetch_error"}

(* C8: after an in-memory load the Corpus holds exactly the maximal runs   *)
(* of non-blank lines as Documents in input order, and the Sample Index    *)
(* holds, in input order, exactly the locators of the sentences that are   *)
(* not the last of their Document; every locator has a successor sentence. *)
C8_LoadedCorpus ==
    /\ (pc = "ld_error" => ExpectedDocuments = <<>>)
    /\ (Constructed =>
          /\ all_documents = ExpectedDocuments
          /\ sample_to_doc = ExpectedSamples
          /\ \A i \in DOMAIN sample_to_doc :
                sample_to_doc[i].line + 2
                    <= Len(all_documents[sample_to_doc[i].doc_id + 1]))

(* two Documents, blank lines doubled, input ending in a non-blank line *)
C8_Witness ==
    /\ pc = "ld_ready"
    /\ Len(all_documents) = 2
    /\ Len(sample_to_doc) >= 1
    /\ NonBlank(Len(documents))
    /\ \E i \in 1..(Len(documents) - 1) : ~NonBlank(i) /\ ~NonBlank(i + 1)

(* C9: no dataset object with zero usable samples is ever produced:  *)
(* construction over a source without Documents, or without a        *)
(* Document of two sentences, ends in a fatal error.                 *)
C9_EmptyCorpusIsFatal == Constructed => Len(sample_to_doc) > 0

(* C10: a fetch with an ordinal outside [0, len(Corpus)) never returns a *)
(* sentence pair.                                                        *)
C10_OutOfRangeFetchIsFatal ==
    pc = "ld_fetched" => item >= 0 /\ item < PD_Len

----------------------------------------------------------------------------
(* GenSpec: PretrainDataGeneration.generate over a PretrainDataset built   *)
(* in memory (task other than 'mlm', lines 497-500).  The output files do  *)
(* not exist before the call; a record is the batch of one Feature, kept   *)
(* as the ordinal fetched, its locator and the epoch that produced it.     *)

MaxGenLines == 4      \* most input lines of a corpus that is generated from
MaxEpochs == 2        \* largest epochs

CorpusTexts == {"", "a", "b"}     \* input lines tried

Record(e, ordinal) == [epoch |-> e, item |-> ordinal, sample |-> sample_to_doc[ordinal + 1]]

(* len(self.dataset) as RandomSampler and DataLoader read it: __len__ *)
SamplerLen == PD_Len

(* the sentences a call of get_random_line can return: any sentence of any *)
(* Document (lines 376-380)                                                *)
AnySentence == UNION {Range(all_documents[d]) : d \in DOMAIN all_documents}

GenInit ==
    /\ pc = "ld_loading"
    /\ documents \in SeqsUpTo(CorpusTexts, MaxGenLines)
    /\ epochs \in 0..MaxEpochs
    /\ line_no = 0
    /\ all_documents = <<>>
    /\ doc = <<>>
    /\ sample_to_doc = <<>>
    /\ corpus_lines = 0 /\ num_docs = 0 /\ current_doc = 0
    /\ item = 0 /\ t1 = <<>> /\ t2 = <<>>
    /\ epoch = 0 /\ sampler = <<>> /\ epoch_files = <<>>
    /\ EncArgsIdle /\ EncLocalsIdle /\ ResumeIdle
    /\ DrawIdle /\ CacheIdle /\ TokIdle /\ LazyIdle /\ OptIdle /\ SpanIdle
    /\ tokens_a = <<>> /\ tokens_b = <<>>
    /\ tokens_a_ids = <<>> /\ tokens_b_ids = <<>>
    /\ max_length = 0

(* lines 512-513: RandomSampler(self.dataset) and DataLoader(...) *)
G_Start ==
    /\ pc = "ld_ready"
    /\ SamplerLen >= 0
    /\ pc' = "gen_epoch"
    /\ UNCHANGED <<encVars, truncVars, resumeVars, loadVars, extVars>>

(* len(self.dataset) raises ValueError for a negative __len__; a sampler   *)
(* over zero samples is refused (ValueError) by the RandomSampler versions *)
(* that check num_samples and accepted by the others                       *)
G_StartRaises ==
    /\ pc = "ld_ready"
    /\ SamplerLen <= 0
    /\ pc' = "gen_error"
    /\ UNCHANGED <<encVars, truncVars, resumeVars, loadVars, extVars>>

(* lines 514-517: the next epoch's file is opened for appending and the    *)
(* DataLoader's iterator draws a fresh permutation of range(len(dataset))  *)
G_OpenEpoch ==
    /\ pc = "gen_epoch"
    /\ epoch < epochs
    /\ sampler' \in Shuffle(PyRange(SamplerLen))
    /\ epoch_files' = Append(epoch_files, <<>>)
    /\ pc' = "gen_write"
    /\ UNCHANGED <<epochs, epoch, encVars, truncVars, resumeVars, loadVars,
                   drawVars, cacheVars, tokVars, lazyVars, optVars, spanVars>>

(* lines 518-519: the next batch is dataset[ordinal] (__getitem__, lines   *)
(* 294-308: random_sent keeps the successor or replaces it by a random     *)
(* line) and is dumped to the open file                                    *)
G_Dump ==
    /\ pc = "gen_write"
    /\ sampler # <<>>
    /\ LET ordinal == Head(sampler)
           sample == sample_to_doc[ordinal + 1]
       IN  /\ item' = ordinal
           /\ current_doc' = sample.doc_id
           /\ t1' = all_documents[sample.doc_id + 1][sample.line + 1]
           /\ \/ /\ label' = 0
                 /\ t2' = all_documents[sample.doc_id + 1][sample.line + 2]
              \/ /\ label' = 1
                 /\ t2' \in AnySentence
           /\ epoch_files' =
                 [epoch_files EXCEPT ![epoch + 1] = Append(@, Record(epoch, ordinal))]
    /\ sampler' = Tail(sampler)
    /\ UNCHANGED <<pc, epochs, epoch, documents, line_no, all_documents, doc,
                   sample_to_doc, corpus_lines, num_docs, current_random_doc,
                   draws, rand_doc_idx, line, encVars, truncVars, resumeVars,
                   cacheVars, tokVars, lazyVars, optVars, spanVars>>

(* the DataLoader is exhausted: the file is closed, next e *)
G_CloseEpoch ==
    /\ pc = "gen_write"
    /\ sampler = <<>>
    /\ epoch' = epoch + 1
    /\ pc' = "gen_epoch"
    /\ UNCHANGED <<epochs, sampler, epoch_files, encVars, truncVars, resumeVars,
                   loadVars, drawVars, cacheVars, tokVars, lazyVars, optVars, spanVars>>

(* range(self.epochs) is exhausted: generate returns *)
G_Return ==
    /\ pc = "gen_epoch"
    /\ epoch = epochs
    /\ pc' = "gen_done"
    /\ UNCHANGED <<encVars, truncVars, resumeVars, loadVars, extVars>>

GenNext ==
    \/ PD_LoadText \/ PD_Construct \/ PD_ConstructRaises
    \/ G_Start \/ G_StartRaises \/ G_OpenEpoch \/ G_Dump \/ G_CloseEpoch
    \/ G_Return

GenSpec == GenInit /\ [][GenNext]_vars

(* the epochs whose file is complete *)
EpochsWritten == 0..(epoch - 1)

(* the records of epoch file e made from the Sample Index entry i *)
RecordsOf(e, i) ==
    {r \in DOMAIN epoch_files[e + 1] : epoch_files[e + 1][r].item = i - 1}

(* C11: for each epoch e, generate visits every entry of the Sample Index  *)
(* exactly once, so each index entry has exactly one record in epoch file  *)
(* e, and no record of epoch e is written into another epoch's file.       *)
C11_EveryEntryOncePerEpoch ==
    pc \in {"gen_epoch", "gen_write", "gen_done"} =>
        /\ \A e \in EpochsWritten :
              \A i \in DOMAIN sample_to_doc : Cardinality(RecordsOf(e, i)) = 1
        /\ \A f \in DOMAIN epoch_files :
              \A r \in DOMAIN epoch_files[f] : epoch_files[f][r].epoch = f - 1

----------------------------------------------------------------------------
(* CacheSpec: PreTensorPretrainDataset over an epoch file.  A record of    *)
(* the file is a pickled batch of one Feature: five fields, each with a    *)
(* leading batch dimension of 1.                                           *)

MaxRecords == 3       \* most records of an epoch file

Payloads == {1, 2}    \* the Features a record is made of

(* the batch generate dumps for Feature p: field j of the one row *)
Batch(p) == [j \in 1..5 |-> <<10 * p + j>>]

(* pretensor[0][0], ..., pretensor[4][0] *)
FirstRows(pretensor) == [j \in 1..5 |-> pretensor[j][1]]

CacheItems == 0..MaxRecords     \* item indices tried

SkippedOneLess(s) == IF s > 0 THEN s - 1 ELSE 0

(* if last_step > 0: for i in range(last_step): pickle.load(self.file) *)
Skipped(s) == IF s > 0 THEN s ELSE 0

PickleLoadRewinds(f, pos) ==
    IF pos < Len(f) THEN <<TRUE, f[pos + 1]>>
    ELSE IF Len(f) > 0 THEN <<TRUE, f[Len(f)]>> ELSE <<FALSE>>

(* pickle.load(self.file) with pos records consumed: <<TRUE, record>>, or *)
(* <<FALSE>> for EOFError at the end of the file                          *)
PickleLoad(f, pos) == IF pos < Len(f) THEN <<TRUE, f[pos + 1]>> ELSE <<FALSE>>

CacheInit ==
    /\ pc = "pt_new"
    /\ \E payloads \in SeqsUpTo(Payloads, MaxRecords) :
          cache_file = [i \in DOMAIN payloads |-> Batch(payloads[i])]
    /\ length \in (-1)..(MaxRecords + 1)
    /\ last_step \in (-1)..(MaxRecords + 1)
    /\ file_pos = 0
    /\ fetched = <<>>
    /\ EncArgsIdle /\ EncLocalsIdle /\ ResumeIdle /\ LoadIdle
    /\ DrawIdle /\ GenIdle /\ TokIdle /\ LazyIdle /\ OptIdle /\ SpanIdle
    /\ all_documents = <<>>
    /\ tokens_a = <<>> /\ tokens_b = <<>>
    /\ tokens_a_ids = <<>> /\ tokens_b_ids = <<>>
    /\ max_length = 0

(* __init__, lines 530-541: the file is opened and the first last_step    *)
(* records are read and dropped; self.length stays the length passed      *)
(* ("self.length - last_step" is an expression without effect)            *)
PT_Init ==
    /\ pc = "pt_new"
    /\ length >= 0
    /\ Skipped(last_step) <= Len(cache_file)
    /\ file_pos' = Skipped(last_step)
    /\ pc' = "pt_open"
    /\ UNCHANGED <<cache_file, length, last_step, fetched, encVars, truncVars,
                   resumeVars, loadVars, drawVars, genVars, tokVars, lazyVars, optVars, spanVars>>

(* ValueError for length < 0; EOFError when last_step exceeds the records *)
PT_InitRaises ==
    /\ pc = "pt_new"
    /\ length < 0 \/ Skipped(last_step) > Len(cache_file)
    /\ pc' = "pt_error"
    /\ UNCHANGED <<encVars, truncVars, resumeVars, loadVars, extVars>>

(* __getitem__(item), lines 546-548 *)
PT_GetItem ==
    /\ pc = "pt_open"
    /\ PickleLoad(cache_file, file_pos)[1]
    /\ \E it \in CacheItems : item' = it
    /\ fetched' = Append(fetched, FirstRows(PickleLoad(cache_file, file_pos)[2]))
    /\ file_pos' = file_pos + 1
    /\ UNCHANGED <<pc, cache_file, length, last_step, documents, line_no,
                   all_documents, doc, sample_to_doc, corpus_lines, num_docs,
                   current_doc, t1, t2, encVars, truncVars, resumeVars,
                   drawVars, genVars, tokVars, lazyVars, optVars, spanVars>>

(* __getitem__(item) at the end of the file: pickle.load raises EOFError *)
PT_GetItemRaises ==
    /\ pc = "pt_open"
    /\ ~PickleLoad(cache_file, file_pos)[1]
    /\ \E it \in CacheItems : item' = it
    /\ pc' = "pt_eof"
    /\ UNCHANGED <<documents, line_no, all_documents, doc, sample_to_doc,
                   corpus_lines, num_docs, current_doc, t1, t2, encVars,
                   truncVars, resumeVars, extVars>>

CacheNext == PT_Init \/ PT_InitRaises \/ PT_GetItem \/ PT_GetItemRaises

CacheSpec == CacheInit /\ [][CacheNext]_vars

(* C12: opened with last_step = s, 0 <= s <= n, on a file of records       *)
(* r_0..r_{n-1}, the k-th fetch (k from 0) returns r_{s+k} whatever item   *)
(* index it is called with.                                               *)
C12_ReplayInWrittenOrder ==
    pc \in {"pt_open", "pt_eof"} /\ last_step >= 0 /\ last_step <= Len(cache_file) =>
        /\ last_step + Len(fetched) <= Len(cache_file)
        /\ \A k \in 0..(Len(fetched) - 1) :
              fetched[k + 1] = FirstRows(cache_file[last_step + k + 1])

(* two different records fetched after one was skipped, the second fetch  *)
(* called with item 0                                                     *)
C12_Witness ==
    /\ pc = "pt_open"
    /\ last_step = 1
    /\ Len(fetched) = 2
    /\ fetched[1] # fetched[2]
    /\ cache_file[1] # cache_file[2]
    /\ item = 0

(* C13: a fetch issued when every record of the file was read or skipped   *)
(* ends in a fatal error and returns nothing; any other fetch returns the  *)
(* one record at the file position and moves past it, so no record is      *)
(* returned twice and no empty or default record is returned.              *)
C13_FetchPastEndIsFatal ==
    [][pc = "pt_open" =>
          IF file_pos >= Len(cache_file)
          THEN pc' = "pt_eof" /\ fetched' = fetched
          ELSE /\ file_pos' = file_pos + 1
               /\ fetched' = Append(fetched, FirstRows(cache_file[file_pos + 1]))]_vars

(* the file ran out before the declared length, after a skip and a fetch *)
C13_Witness ==
    /\ pc = "pt_eof"
    /\ last_step > 0
    /\ Len(fetched) > 0
    /\ last_step + Len(fetched) = Len(cache_file)
    /\ Len(cache_file) < length

----------------------------------------------------------------------------
(* SampleSpec: random_sent on the in-memory store: get_corpus_line, then   *)
(* either the successor is kept or get_random_line replaces it, one        *)
(* iteration of its loop per step.                                         *)

MaxSampleLines == 4   \* most input lines of a corpus that is sampled from

MaxDraws == 10        \* for _ in range(10)

LoopExhaustedLate(d) == d = MaxDraws + 1

(* the for loop of get_random_line ends after the iteration numbered d *)
LoopExhausted(d) == d = MaxDraws

(* line 386: if self.current_random_doc != self.current_doc: break *)
OtherDocument == current_random_doc # current_doc

SampleInit ==
    /\ pc = "ld_loading"
    /\ documents \in SeqsUpTo(CorpusTexts, MaxSampleLines)
    /\ line_no = 0
    /\ all_documents = <<>>
    /\ doc = <<>>
    /\ sample_to_doc = <<>>
    /\ corpus_lines = 0 /\ num_docs = 0 /\ current_doc = 0
    /\ item = 0 /\ t1 = <<>> /\ t2 = <<>>
    /\ current_random_doc = 0 /\ draws = 0 /\ rand_doc_idx = 0
    /\ line = <<>> /\ label = 0
    /\ EncArgsIdle /\ EncLocalsIdle /\ ResumeIdle
    /\ GenIdle /\ CacheIdle /\ TokIdle /\ LazyIdle /\ OptIdle /\ SpanIdle
    /\ tokens_a = <<>> /\ tokens_b = <<>>
    /\ tokens_a_ids = <<>> /\ tokens_b_ids = <<>>
    /\ max_length = 0

(* random_sent, lines 317-319: random() > 0.5, the successor is kept *)
RS_KeepNext ==
    /\ pc = "ld_fetched"
    /\ label' = 0
    /\ pc' = "sent_done"
    /\ UNCHANGED <<current_random_doc, draws, rand_doc_idx, line, encVars,
                   truncVars, resumeVars, loadVars, genVars, cacheVars, tokVars, lazyVars, optVars, spanVars>>

(* get_random_line, lines 375-387 with on_memory: one iteration of the     *)
(* loop; the first one when entered from random_sent (line 321)            *)
PD_RandomLineDraw ==
    /\ pc \in {"ld_fetched", "rl_loop"}
    /\ LET d == IF pc = "ld_fetched" THEN 1 ELSE draws + 1
       IN  /\ draws' = d
           /\ \E idx \in 0..(Len(all_documents) - 1) :
                 /\ rand_doc_idx' = idx
                 /\ line' \in Range(all_documents[idx + 1])
           /\ pc' = IF OtherDocument \/ LoopExhausted(d) THEN "rl_return" ELSE "rl_loop"
    /\ UNCHANGED <<current_random_doc, label, encVars, truncVars, resumeVars,
                   loadVars, genVars, cacheVars, tokVars, lazyVars, optVars, spanVars>>

(* get_random_line returns line (388); random_sent, lines 321-324 *)
RS_ReplaceNext ==
    /\ pc = "rl_return"
    /\ t2' = line
    /\ label' = 1
    /\ pc' = "sent_done"
    /\ UNCHANGED <<documents, line_no, all_documents, doc, sample_to_doc,
                   corpus_lines, num_docs, current_doc, item, t1,
                   current_random_doc, draws, rand_doc_idx, line, encVars,
                   truncVars, resumeVars, genVars, cacheVars, tokVars, lazyVars, optVars, spanVars>>

SampleNext ==
    \/ PD_LoadText \/ PD_Construct \/ PD_ConstructRaises
    \/ PD_GetCorpusLine \/ PD_GetCorpusLineRaises
    \/ RS_KeepNext \/ PD_RandomLineDraw \/ RS_ReplaceNext

SampleSpec == SampleInit /\ [][SampleNext]_vars

(* C14: on the in-memory store, whenever get_random_line returns before    *)
(* its 10th draw the sentence returned comes from a Document other than    *)
(* current_doc, so a label-1 result has a second segment from the same     *)
(* Document only after 10 colliding draws.                                 *)
C14_EarlyReturnIsOtherDocument ==
    pc \in {"rl_return", "sent_done"} /\ draws > 0 /\ draws < MaxDraws =>
        rand_doc_idx # current_doc

(* C15: get_random_line makes at least 1 and at most 10 draws and then     *)
(* returns a sentence of the corpus; no draw can raise, whatever the       *)
(* corpus and current_doc, also when all 10 draws hit the current Document.*)
C15_RandomLineBounded ==
    /\ (pc = "rl_loop" =>
          /\ draws >= 1 /\ draws < MaxDraws
          /\ Len(all_documents) > 0
          /\ \A d \in DOMAIN all_documents : Len(all_documents[d]) > 0)
    /\ (pc = "rl_return" =>
          /\ draws >= 1 /\ draws <= MaxDraws
          /\ line \in AnySentence)

(* the 10th draw hit the current Document although another one exists *)
C15_Witness ==
    /\ pc = "rl_return"
    /\ draws = MaxDraws
    /\ rand_doc_idx = current_doc
    /\ Len(all_documents) > 1

----------------------------------------------------------------------------
(* Masking with fewer candidates than mask_count (EncSpec) *)

(* the candidate positions of the sequence handed to the masking step *)
CandidateCount == Len(mask_candidate_pos(tokens_a_ids \o tokens_b_ids))

(* C16: for any token list and mask probability, also when mask_count or   *)
(* the span length derived from it exceeds the number of candidate         *)
(* positions, per-token and span masking both complete without error and   *)
(* touch at most as many positions as there are candidates.                *)
C16_MaskingNeverFails ==
    /\ pc # "enc_split_error"
    /\ (pc \in {"enc_pad", "enc_done"} => Cardinality(touched) <= CandidateCount)

----------------------------------------------------------------------------
(* LazySpec: PretrainDataset constructed with on_memory=False and no       *)
(* documents over a corpus file (lines 257-271), one line of the counting  *)
(* pass per step.  documents holds the lines of the file.                  *)

MaxLazyLines == 4     \* most lines of a corpus file read lazily

(* an attribute the object does not have: reading it raises AttributeError *)
Unset == "unset"

LazyInit ==
    /\ pc = "lz_scan"
    /\ documents \in SeqsUpTo(LineTexts, MaxLazyLines)
    /\ line_no = 0
    /\ corpus_lines = 0
    /\ num_docs = Unset
    /\ current_doc = 0
    /\ current_random_doc = 0
    /\ file = -1 /\ random_file = -1
    /\ OptIdle
    /\ all_documents = <<>> /\ doc = <<>> /\ sample_to_doc = <<>>
    /\ item = 0 /\ t1 = <<>> /\ t2 = <<>>
    /\ draws = 0 /\ rand_doc_idx = 0 /\ line = <<>> /\ label = 0
    /\ EncArgsIdle /\ EncLocalsIdle /\ ResumeIdle
    /\ GenIdle /\ CacheIdle /\ TokIdle /\ SpanIdle
    /\ tokens_a = <<>> /\ tokens_b = <<>>
    /\ tokens_a_ids = <<>> /\ tokens_b_ids = <<>>
    /\ max_length = 0

(* lines 260-264: the next line is counted; "self.num_docs += 1" needs the *)
(* attribute to exist                                                      *)
PD_CountLine ==
    /\ pc = "lz_scan"
    /\ line_no < Len(documents)
    /\ IF Strip(documents[line_no + 1]) = ""
       THEN /\ num_docs # Unset
            /\ num_docs' = num_docs + 1
            /\ UNCHANGED corpus_lines
       ELSE /\ corpus_lines' = corpus_lines + 1
            /\ UNCHANGED num_docs
    /\ line_no' = line_no + 1
    /\ UNCHANGED <<pc, documents, all_documents, doc, sample_to_doc,
                   current_doc, item, t1, t2, encVars, truncVars, resumeVars,
                   extVars>>

(* line 262 on a blank line: AttributeError, num_docs was never assigned *)
PD_CountLineRaises ==
    /\ pc = "lz_scan"
    /\ line_no < Len(documents)
    /\ Strip(documents[line_no + 1]) = ""
    /\ num_docs = Unset
    /\ pc' = "lz_error"
    /\ UNCHANGED <<encVars, truncVars, resumeVars, loadVars, extVars>>

(* lines 266-271 after the last line: the document that does not end in a  *)
(* blank line is counted, then both cursors are opened.  On an empty file  *)
(* the name "line" is unbound (NameError).                                 *)
PD_OpenCursors ==
    /\ pc = "lz_scan"
    /\ line_no = Len(documents)
    /\ IF documents = <<>>
       THEN pc' = "lz_error" /\ UNCHANGED <<num_docs, file, random_file>>
       ELSE IF Strip(documents[Len(documents)]) = ""
       THEN /\ pc' = "lz_ready"
            /\ file' = 0 /\ random_file' = 0
            /\ UNCHANGED num_docs
       ELSE IF num_docs = Unset
       THEN pc' = "lz_error" /\ UNCHANGED <<num_docs, file, random_file>>
       ELSE /\ pc' = "lz_ready"
            /\ num_docs' = num_docs + 1
            /\ file' = 0 /\ random_file' = 0
    /\ UNCHANGED <<documents, line_no, all_documents, doc, sample_to_doc,
                   corpus_lines, current_doc, item, t1, t2, encVars, truncVars,
                   resumeVars, drawVars, genVars, cacheVars, tokVars, optVars,
                   spanVars>>

LazyNext == PD_CountLine \/ PD_CountLineRaises \/ PD_OpenCursors

LazySpec == LazyInit /\ [][LazyNext]_vars

(* the counting pass is over *)
LazyEnded == pc \in {"lz_ready", "lz_error"}

NonBlankLines == {i \in DOMAIN documents : NonBlank(i)}

(* C17: construction in lazy mode over any non-empty corpus file           *)
(* completes; it leaves corpus_lines equal to the number of non-blank      *)
(* lines, num_docs equal to the number of Documents and both file cursors  *)
(* open at the start of the file.                                          *)
C17_LazyConstructionCounts ==
    LazyEnded /\ NonBlankLines # {} =>
        /\ pc = "lz_ready"
        /\ corpus_lines = Cardinality(NonBlankLines)
        /\ num_docs = Len(RunStarts)
        /\ file = 0 /\ random_file = 0

(* some Document of the file has two sentences *)
HasSentencePair == \E i \in DOMAIN documents : NonBlank(i) /\ RunEnd(i) > i

----------------------------------------------------------------------------
(* TokSpec: FullTokenizer (tokenization_juman.py) built from a vocabulary  *)
(* file that lists the control tokens first, then get_random_token_id.     *)
(* vocab holds the file's tokens in order: token i (from 0) has id i.      *)

MaxWords == 12        \* most ordinary words of a vocabulary

(* the vocabulary file with n ordinary words after the control tokens *)
Vocabulary(n) == CONTROL_TOKENS \o [i \in 1..n |-> "w" \o ToString(i)]

(* the loop of __init__, lines 121-124: self.vocab maps token -> index and *)
(* the test "v in control_tokens" is made on the index v                   *)
ControlLen(voc) ==
    Cardinality({v \in 0..(Len(voc) - 1) :
        \E i \in DOMAIN CONTROL_TOKENS :
            PyEq(<<"int", v>>, <<"str", CONTROL_TOKENS[i]>>)})

(* randint(a, b): every integer of a..b *)
RandInt(a, b) == a..b

TokInit ==
    /\ pc = "tk_new"
    /\ vocab \in {Vocabulary(n) : n \in 0..MaxWords}
    /\ tk_control_len = 0 /\ inv_vocab_len = 0 /\ random_id = 0
    /\ EncArgsIdle /\ EncLocalsIdle /\ ResumeIdle /\ LoadIdle
    /\ DrawIdle /\ GenIdle /\ CacheIdle /\ LazyIdle /\ OptIdle /\ SpanIdle
    /\ all_documents = <<>>
    /\ tokens_a = <<>> /\ tokens_b = <<>>
    /\ tokens_a_ids = <<>> /\ tokens_b_ids = <<>>
    /\ max_length = 0

(* FullTokenizer.__init__, lines 117-124 *)
TK_Init ==
    /\ pc = "tk_new"
    /\ tk_control_len' = ControlLen(vocab)
    /\ inv_vocab_len' = Len(vocab)
    /\ pc' = "tk_ready"
    /\ UNCHANGED <<vocab, random_id, encVars, truncVars, resumeVars, loadVars,
                   drawVars, genVars, cacheVars, lazyVars, optVars, spanVars>>

(* get_random_token_id, lines 138-139 *)
TK_GetRandomTokenId ==
    /\ pc \in {"tk_ready", "tk_drawn"}
    /\ random_id' \in RandInt(tk_control_len + 1, inv_vocab_len - 1)
    /\ pc' = "tk_drawn"
    /\ UNCHANGED <<vocab, tk_control_len, inv_vocab_len, encVars, truncVars,
                   resumeVars, loadVars, drawVars, genVars, cacheVars, lazyVars, optVars, spanVars>>

TokNext == TK_Init \/ TK_GetRandomTokenId

TokSpec == TokInit /\ [][TokNext]_vars

(* C20: get_random_token_id returns an id of [0, vocab_size) that is not   *)
(* the id of a control token ([PAD], [UNK], [CLS], [SEP], [MASK]),         *)
(* whatever vocabulary with the control tokens listed first the tokenizer  *)
(* was built from.                                                         *)
C20_RandomIdIsOrdinary ==
    pc = "tk_drawn" =>
        /\ random_id >= 0 /\ random_id < Len(vocab)
        /\ \A i \in DOMAIN CONTROL_TOKENS : vocab[random_id + 1] # CONTROL_TOKENS[i]

----------------------------------------------------------------------------
(* Which list truncate_seq_pair pops from (TruncSpec) *)

Max(x, y) == IF x > y THEN x ELSE y

(* C21: truncate_seq_pair(a, b, L) with L >= 0 removes tokens only from    *)
(* the end of the list that is longer at that moment, from b when the two  *)
(* are equally long and never from the strictly shorter one; both lists    *)
(* stay prefixes of the inputs and on return exactly                       *)
(* max(0, len(a) + len(b) - L) tokens were removed in total.               *)
C21_TruncatesLongerSide ==
    /\ [][pc = "trunc_loop" /\ max_length >= 0 =>
            /\ tokens_a_ids' # tokens_a_ids =>
                  /\ Len(tokens_a_ids) > Len(tokens_b_ids)
                  /\ tokens_a_ids' = Front(tokens_a_ids)
                  /\ tokens_b_ids' = tokens_b_ids
            /\ tokens_b_ids' # tokens_b_ids =>
                  /\ Len(tokens_b_ids) >= Len(tokens_a_ids)
                  /\ tokens_b_ids' = Front(tokens_b_ids)
                  /\ tokens_a_ids' = tokens_a_ids]_vars
    /\ [](max_length >= 0 =>
            /\ IsPrefix(tokens_a_ids, tokens_a)
            /\ IsPrefix(tokens_b_ids, tokens_b)
            /\ (pc = "trunc_done" =>
                  (Len(tokens_a) + Len(tokens_b))
                      - (Len(tokens_a_ids) + Len(tokens_b_ids))
                  = Max(0, Len(tokens_a) + Len(tokens_b) - max_length)))

(* equally long lists, both of which lost tokens *)
C21_Witness ==
    /\ pc = "trunc_done"
    /\ max_length >= 0
    /\ Len(tokens_a) = Len(tokens_b)
    /\ Len(tokens_a_ids) < Len(tokens_a)
    /\ Len(tokens_b_ids) < Len(tokens_b)
    /\ Len(tokens_b_ids) + 1 = Len(tokens_a_ids)

----------------------------------------------------------------------------
(* The chunks of span masking (EncSpec) *)

(* the candidate positions of the unmasked sequence *)
CandidatePositions == mask_candidate_pos(tokens_a_ids \o tokens_b_ids)

(* the chunks in the order np.array_split made them, before the shuffle *)
ChunksInOrder ==
    CHOOSE order \in Shuffle(mask_candidate_words) :
        \A i \in 1..(Len(order) - 1) : order[i][1] < order[i + 1][1]

SpanMasked == pc \in {"enc_pad", "enc_done"} /\ mode = "one" /\ mask_length >= 1

(* C22: in span mode, for span length m >= 1 the candidate positions are   *)
(* split into contiguous chunks that, concatenated in order, give back the *)
(* candidate list, and every chunk has exactly m positions except possibly *)
(* the last one, which may be shorter.                                     *)
C22_ChunksOfSpanLength ==
    SpanMasked =>
        /\ Flatten(ChunksInOrder) = CandidatePositions
        /\ \A i \in DOMAIN ChunksInOrder :
              /\ Len(ChunksInOrder[i]) >= 1
              /\ Len(ChunksInOrder[i]) <= mask_length
              /\ (i < Len(ChunksInOrder) => Len(ChunksInOrder[i]) = mask_length)

----------------------------------------------------------------------------
(* What masking leaves alone (EncSpec) *)

(* C23: in every Feature of either mode label_ids holds the whole unmasked *)
(* sequence with its special tokens, and input_ids differs from label_ids  *)
(* only at candidate positions the masking step selected: every CLS, SEP,  *)
(* padding and non-selected position holds the same id in both.            *)
C23_LabelsKeepOriginal ==
    pc = "enc_done" =>
        /\ label_ids = (tokens_a_ids \o tokens_b_ids)
                           \o Repeat(pad_id, max_pos - TokensBeforePadding)
        /\ IsPrefix(StripSpecial(tokens_a_ids), tokens_a)
        /\ IsPrefix(StripSpecial(tokens_b_ids), tokens_b)
        /\ Len(input_ids) = Len(label_ids)
        /\ \A i \in DOMAIN input_ids :
              input_ids[i] # label_ids[i] =>
                  /\ i \in touched
                  /\ i <= TokensBeforePadding
                  /\ label_ids[i] # cls_id /\ label_ids[i] # sep_id

(* a padded two-segment Feature in which masking changed an id *)
C23_Witness ==
    /\ pc = "enc_done"
    /\ mode = "pair"
    /\ tokens_b # <<>>
    /\ Len(input_ids) > TokensBeforePadding
    /\ \E i \in DOMAIN input_ids : input_ids[i] # label_ids[i]

----------------------------------------------------------------------------
(* Layout of the unpadded sequence (EncSpec) *)

Prepared == pc \in {"enc_mask", "enc_pad", "enc_done", "enc_split_error"}

(* the sequence before masking and padding *)
Unmasked == tokens_a_ids \o tokens_b_ids

(* C24: in two-segment mode the unpadded token sequence is CLS, the        *)
(* truncated a, the truncated b, then the SEP tokens appended after b      *)
(* (nothing is appended to a), of total length len(a') + len(b') + 3, with *)
(* segment id 0 on CLS and every token of a and segment id 1 on every      *)
(* token of b and the trailing SEPs; in single-segment mode it is CLS, the *)
(* truncated a, SEP.                                                       *)
C24_SequenceLayout ==
    /\ (Prepared /\ mode = "pair" =>
          \E la \in 0..Len(tokens_a) : \E lb \in 0..Len(tokens_b) :
             /\ Unmasked = ((<<cls_id>> \o SubSeq(tokens_a, 1, la))
                               \o SubSeq(tokens_b, 1, lb)) \o <<sep_id, sep_id>>
             /\ Len(Unmasked) = la + lb + 3
             /\ la + lb <= target_max_pos
             /\ Prefix(segment_ids, la + lb + 3)
                    = Repeat(0, 1 + la) \o Repeat(1, lb + 2))
    /\ (Prepared /\ mode = "one" =>
          \E la \in 0..Len(tokens_a) :
             /\ Unmasked = (<<cls_id>> \o SubSeq(tokens_a, 1, la)) \o <<sep_id>>
             /\ la <= target_max_pos)

(* a two-segment Feature whose segments were both truncated and both kept  *)
(* a token                                                                 *)
C24_Witness ==
    /\ pc = "enc_done" /\ mode = "pair"
    /\ Len(tokens_a) + Len(tokens_b) > target_max_pos
    /\ Len(tokens_a_ids) >= 2
    /\ Len(tokens_b_ids) >= 3
    /\ Len(tokens_a_ids) - 1 < Len(tokens_a)
    /\ Len(tokens_b_ids) - 2 < Len(tokens_b)

----------------------------------------------------------------------------
(* FetchSpec: a dataset is constructed (PretrainDataset in memory from     *)
(* input lines, OneSegmentDataset from a pickled list of documents), then  *)
(* __getitem__ is called any number of times. A call runs random_sent and  *)
(* convert_example_to_features (PretrainDataset) or                        *)
(* convert_example_to_features on all_documents[indices[item]]             *)
(* (OneSegmentDataset) and returns.                                        *)

MinFetchPos == 3      \* smallest max_pos of a dataset fetched from
MaxFetchPos == 6      \* largest max_pos of a dataset fetched from
MaxFetchDocs == 2     \* most documents of the pickled list
MaxFetchLines == 3    \* most input lines of the corpus fetched from

PickledDocuments == {<<5>>, <<5, 6, 5>>}

FetchInit ==
    /\ mode \in {"pair", "one"}
    /\ pc = IF mode = "pair" THEN "ld_loading" ELSE "rs_closed"
    /\ documents \in (IF mode = "pair"
                      THEN SeqsUpTo(CorpusTexts, MaxFetchLines) ELSE {<<>>})
    /\ pickle_file \in (IF mode = "one"
                        THEN SeqsUpTo(PickledDocuments, MaxFetchDocs) ELSE {<<>>})
    /\ max_pos \in MinFetchPos..MaxFetchPos
    /\ masked_lm_prob = 15
    /\ max_words_length \in (IF mode = "one" THEN WordsLengths ELSE {0})
    /\ is_next_label = 0
    /\ tokens_a_ref = NoRef /\ tokens_b_ref = NoRef
    /\ line_no = 0
    /\ all_documents = <<>>
    /\ doc = <<>>
    /\ sample_to_doc = <<>>
    /\ corpus_lines = 0 /\ num_docs = 0 /\ current_doc = 0
    /\ item = 0 /\ t1 = <<>> /\ t2 = <<>>
    /\ indices = <<>> /\ last_indices_file = <<>> /\ steps = 0
    /\ served = <<>> /\ cycles = 0
    /\ EncLocalsIdle /\ ExtIdle
    /\ tokens_a = <<>> /\ tokens_b = <<>>
    /\ tokens_a_ids = <<>> /\ tokens_b_ids = <<>>
    /\ max_length = 0

(* PretrainDataset.__getitem__, lines 304-307: random_sent has returned,  *)
(* convert_example_to_features is entered with the lists it returned.     *)
(* get_corpus_line and get_random_line return the stored lists themselves *)
(* (lines 338-341 and 380).                                               *)
PD_GetItemConvert ==
    /\ pc = "sent_done" /\ mode = "pair"
    /\ tokens_a' = t1
    /\ tokens_b' = t2
    /\ is_next_label' = label
    /\ LET sample == PyIndex(sample_to_doc, item)[2]
       IN  /\ tokens_a_ref' = <<sample.doc_id + 1, sample.line + 1>>
           /\ IF label = 0
              THEN tokens_b_ref' = <<sample.doc_id + 1, sample.line + 2>>
              ELSE \E l \in DOMAIN all_documents[rand_doc_idx + 1] :
                     /\ all_documents[rand_doc_idx + 1][l] = line
                     /\ tokens_b_ref' = <<rand_doc_idx + 1, l>>
    /\ pc' = "enc_start"
    /\ UNCHANGED <<mode, max_pos, masked_lm_prob, max_words_length,
                   target_max_pos, tokens_a_ids, tokens_b_ids, tokens,
                   mask_prediction, encResult, touched, substituted,
                   truncVars, resumeVars, loadVars, extVars>>

(* __getitem__ returns the tensors built from the features (line 308);   *)
(* the locals of the call are gone                                        *)
PD_GetItemReturn ==
    /\ pc = "enc_done" /\ mode = "pair"
    /\ tokens_a' = <<>> /\ tokens_b' = <<>> /\ is_next_label' = 0
    /\ tokens_a_ref' = NoRef /\ tokens_b_ref' = NoRef
    /\ tokens_a_ids' = <<>> /\ tokens_b_ids' = <<>>
    /\ target_max_pos' = 0 /\ tokens' = <<>> /\ mask_prediction' = 0
    /\ input_ids' = <<>> /\ segment_ids' = <<>> /\ input_mask' = <<>>
    /\ label_ids' = <<>> /\ touched' = {} /\ substituted' = {}
    /\ item' = 0 /\ t1' = <<>> /\ t2' = <<>>
    /\ draws' = 0 /\ rand_doc_idx' = 0 /\ line' = <<>> /\ label' = 0
    /\ pc' = "ld_ready"
    /\ UNCHANGED <<mode, max_pos, masked_lm_prob, max_words_length,
                   documents, line_no, all_documents, doc, sample_to_doc,
                   corpus_lines, num_docs, current_doc, current_random_doc,
                   truncVars, resumeVars, genVars, cacheVars, tokVars,
                   lazyVars, optVars, spanVars>>

(* OneSegmentDataset.__getitem__, line 132: convert_example_to_features   *)
(* is entered with the stored list all_documents[indices[item]]           *)
OS_GetItemConvert ==
    /\ pc = "rs_open" /\ mode = "one"
    /\ \E it \in 0..(Len(indices) - 1) :
         /\ tokens_a' = all_documents[indices[it + 1] + 1]
         /\ tokens_a_ref' = <<indices[it + 1] + 1>>
    /\ pc' = "enc_start"
    /\ UNCHANGED <<mode, tokens_b, is_next_label, max_pos, masked_lm_prob,
                   max_words_length, tokens_b_ref, target_max_pos,
                   tokens_a_ids, tokens_b_ids, tokens, mask_prediction,
                   encResult, touched, substituted,
                   truncVars, resumeVars, loadVars, extVars>>

(* line 133: the same return for OneSegmentDataset *)
OS_GetItemReturn ==
    /\ pc = "enc_done" /\ mode = "one"
    /\ tokens_a' = <<>> /\ tokens_a_ref' = NoRef
    /\ tokens_a_ids' = <<>>
    /\ target_max_pos' = 0 /\ tokens' = <<>> /\ mask_prediction' = 0
    /\ input_ids' = <<>> /\ segment_ids' = <<>> /\ input_mask' = <<>>
    /\ label_ids' = <<>> /\ touched' = {} /\ substituted' = {}
    /\ mask_length' = 0 /\ mask_candidate_words' = <<>>
    /\ pc' = "rs_open"
    /\ UNCHANGED <<mode, tokens_b, is_next_label, max_pos, masked_lm_prob,
                   max_words_length, tokens_b_ref, tokens_b_ids,
                   truncVars, resumeVars, loadVars, drawVars, genVars,
                   cacheVars, tokVars, lazyVars, optVars, stack>>

FetchNext ==
    \/ PD_LoadText \/ PD_Construct \/ PD_ConstructRaises
    \/ PD_GetCorpusLine \/ PD_GetCorpusLineRaises
    \/ RS_KeepNext \/ PD_RandomLineDraw \/ RS_ReplaceNext
    \/ PD_GetItemConvert \/ PD_Prepare \/ PD_PrepareRaises \/ PD_Mask \/ PD_Pad
    \/ PD_GetItemReturn
    \/ OS_LoadPickle
    \/ OS_GetItemConvert \/ OS_Prepare \/ OS_PrepareRaises \/ OS_Mask \/ OS_Pad
    \/ OS_GetItemReturn

FetchSpec == FetchInit /\ [][FetchNext]_vars

(* the dataset is constructed: every later step belongs to a fetch *)
Loaded == pc \notin {"ld_loading", "ld_error", "rs_closed"}

(* C25: once the dataset is loaded, no step of any __getitem__ call       *)
(* (get_corpus_line, random_sent, truncation, special tokens, masking,    *)
(* padding, return) changes all_documents, the Sample Index or the index  *)
(* order: they stay as the load left them.                                *)
C25_StoreReadOnly ==
    [][Loaded => /\ all_documents' = all_documents
                 /\ sample_to_doc' = sample_to_doc
                 /\ indices' = indices]_vars

(* a fetch has truncated a stored sentence pair, overwritten a position   *)
(* and padded; the stored sentences are still whole                       *)
C25_Witness ==
    /\ pc = "enc_done" /\ mode = "pair"
    /\ Len(tokens_a_ids) + Len(tokens_b_ids) - 3 < Len(tokens_a) + Len(tokens_b)
    /\ substituted # {}
    /\ Len(tokens) < Len(input_ids)
    /\ all_documents[tokens_a_ref[1]][tokens_a_ref[2]] = tokens_a
    /\ all_documents[tokens_b_ref[1]][tokens_b_ref[2]] = tokens_b

----------------------------------------------------------------------------
(* StackSpec: OneSegmentDataset built with sentence_stack=True from a      *)
(* list of input lines, one _load_text call per step.                      *)

MaxStackLines == 4    \* most input lines of the corpus stacked
MinStackPos == 3      \* smallest max_pos of the dataset
MaxStackPos == 5      \* largest max_pos of the dataset

(* tokenizer.tokenize(text) *)
tokenize(text) == IF text = "a" THEN <<"a">> ELSE <<"b", "a">>

(* tokenizer.convert_tokens_to_ids(tokens) *)
convert_tokens_to_ids(toks) == [i \in DOMAIN toks |-> IF toks[i] = "a" THEN 5 ELSE 6]

StackInit ==
    /\ pc = "st_loading"
    /\ documents \in SeqsUpTo(LineTexts, MaxStackLines)
    /\ max_pos \in MinStackPos..MaxStackPos
    /\ line_no = 0
    /\ stack = <<>>
    /\ all_documents = <<>>
    /\ indices = <<>>
    /\ mode = "none" /\ is_next_label = 0 /\ masked_lm_prob = 0
    /\ max_words_length = 0
    /\ tokens_a_ref = NoRef /\ tokens_b_ref = NoRef
    /\ pickle_file = <<>> /\ last_indices_file = <<>> /\ steps = 0
    /\ served = <<>> /\ cycles = 0
    /\ doc = <<>> /\ sample_to_doc = <<>>
    /\ corpus_lines = 0 /\ num_docs = 0 /\ current_doc = 0
    /\ item = 0 /\ t1 = <<>> /\ t2 = <<>>
    /\ mask_length = 0 /\ mask_candidate_words = <<>>
    /\ EncLocalsIdle
    /\ DrawIdle /\ GenIdle /\ CacheIdle /\ TokIdle /\ LazyIdle /\ OptIdle
    /\ tokens_a = <<>> /\ tokens_b = <<>>
    /\ tokens_a_ids = <<>> /\ tokens_b_ids = <<>>
    /\ max_length = 0

(* OneSegmentDataset._load_text(text, stack) with sentence_stack, lines    *)
(* 107-121, and "stack = self._load_text(text, stack)" of line 80          *)
OS_LoadText ==
    /\ pc = "st_loading"
    /\ line_no < Len(documents)
    /\ line_no' = line_no + 1
    /\ LET text == Strip(documents[line_no + 1])
       IN  IF text = ""
           THEN IF Len(stack) > 0
                THEN /\ all_documents' = Append(all_documents,
                                                convert_tokens_to_ids(stack))
                     /\ stack' = <<>>
                ELSE UNCHANGED <<all_documents, stack>>
           ELSE LET toks == tokenize(text)
                IN  IF Len(stack) + Len(toks) > max_pos - 2
                    THEN /\ all_documents' = Append(all_documents,
                                                    convert_tokens_to_ids(stack))
                         /\ stack' = <<>>
                    ELSE /\ stack' = stack \o toks
                         /\ UNCHANGED all_documents
    /\ UNCHANGED <<pc, documents, doc, sample_to_doc, corpus_lines, num_docs,
                   current_doc, item, t1, t2, encVars, truncVars, resumeVars,
                   drawVars, genVars, cacheVars, tokVars, lazyVars, optVars,
                   mask_length, mask_candidate_words>>

(* the documents after the loop, lines 85-87: a stack left over is stored *)
StackClosed ==
    IF Len(stack) > 0 THEN Append(all_documents, convert_tokens_to_ids(stack))
    ELSE all_documents

(* end of input, lines 85-91 *)
OS_Construct ==
    /\ pc = "st_loading"
    /\ line_no = Len(documents)
    /\ Len(documents) > 0
    /\ Len(StackClosed) # 0
    /\ all_documents' = StackClosed
    /\ indices' = PyRange(Len(StackClosed))
    /\ pc' = "st_ready"
    /\ UNCHANGED <<documents, line_no, doc, sample_to_doc, corpus_lines,
                   num_docs, current_doc, item, t1, t2, encVars, truncVars,
                   pickle_file, last_indices_file, steps, served, cycles,
                   extVars>>

(* no document: ValueError (lines 89-90); with neither documents nor a    *)
(* dataset_path the message itself raises TypeError                       *)
OS_ConstructRaises ==
    /\ pc = "st_loading"
    /\ line_no = Len(documents)
    /\ Len(documents) = 0 \/ Len(StackClosed) = 0
    /\ pc' = "st_error"
    /\ UNCHANGED <<encVars, truncVars, extVars, resumeVars, loadVars>>

StackNext == OS_LoadText \/ OS_Construct \/ OS_ConstructRaises

StackSpec == StackInit /\ [][StackNext]_vars

(* the ids of the tokens of input lines from..Len(documents), in order *)
RECURSIVE LineIdsFrom(_)
LineIdsFrom(from) ==
    IF from > Len(documents) THEN <<>>
    ELSE (IF Strip(documents[from]) = "" THEN <<>>
          ELSE convert_tokens_to_ids(tokenize(Strip(documents[from]))))
         \o LineIdsFrom(from + 1)

(* C26: when construction completes, the stored documents concatenate to  *)
(* the tokens of the non-blank input lines in input order (each token in  *)
(* exactly one document, none dropped), and every stored document is      *)
(* non-empty with at most max_pos - 2 tokens.                             *)
C26_StackKeepsEveryToken ==
    pc = "st_ready" =>
        /\ Flatten(all_documents) = LineIdsFrom(1)
        /\ \A d \in DOMAIN all_documents :
             /\ Len(all_documents[d]) > 0
             /\ Len(all_documents[d]) <= max_pos - 2

----------------------------------------------------------------------------
(* PreTensorPretrainDataset.__len__, lines 543-544: return self.length *)
PT_Len == length

(* C27: on a file of exactly length records opened with last_step = s,    *)
(* 0 < s <= length, len() is length - s, and a pass of len() fetches does *)
(* not run past the end of the file: the end is only hit by a fetch       *)
(* issued after len() fetches have returned.                              *)
C27_LenIsRecordsLeft ==
    /\ pc \in {"pt_open", "pt_eof"}
    /\ length = Len(cache_file)
    /\ 0 < last_step /\ last_step <= length
    => /\ PT_Len = length - last_step
       /\ (pc = "pt_eof" => Len(fetched) >= PT_Len)

----------------------------------------------------------------------------
(* LrSpec: a BertAdam optimizer is constructed, then step() is called any  *)
(* number of times; each call schedules the rate with update_lr for        *)
(* state['step'] and increments state['step']. Rates are exact fractions   *)
(* <<numerator, denominator>> with a positive denominator.                 *)

MaxLr == 2            \* largest lr, in units of 1e-5
MaxSchedule == 3      \* largest warmup_steps and max_steps
MaxOptSteps == 5      \* most calls of step()

update_lr_unclamped(step, rate, warmup, maxs) ==
    IF step < 0 THEN <<rate, 1>>
    ELSE IF warmup # 0 /\ step < warmup THEN <<rate * step, warmup>>
    ELSE IF maxs # 0 THEN <<rate * (maxs - step), maxs>>
    ELSE <<rate, 1>>

(* update_lr(step, lr, warmup_steps, max_steps), lines 131-140:           *)
(* lr * step / warmup_steps and lr * (1 - global_step / max_steps)        *)
update_lr(step, rate, warmup, maxs) ==
    IF step < 0 THEN <<rate, 1>>
    ELSE IF warmup # 0 /\ step < warmup THEN <<rate * step, warmup>>
    ELSE IF maxs # 0 THEN <<rate * (maxs - Min(step, maxs)), maxs>>
    ELSE <<rate, 1>>

(* BertAdam.__init__, lines 42-60, has accepted lr, warmup_steps and       *)
(* max_steps: none of them is negative                                     *)
LrInit ==
    /\ pc = "opt_ready"
    /\ lr \in 0..MaxLr
    /\ warmup_steps \in 0..MaxSchedule
    /\ max_steps \in 0..MaxSchedule
    /\ state_step = 0
    /\ lr_scheduled = <<0, 1>>
    /\ EncArgsIdle /\ EncLocalsIdle /\ ResumeIdle /\ LoadIdle
    /\ DrawIdle /\ GenIdle /\ CacheIdle /\ TokIdle /\ SpanIdle
    /\ file = -1 /\ random_file = -1
    /\ all_documents = <<>>
    /\ tokens_a = <<>> /\ tokens_b = <<>>
    /\ tokens_a_ids = <<>> /\ tokens_b_ids = <<>>
    /\ max_length = 0

(* BertAdam.step, lines 114-119, for one parameter *)
BA_Step ==
    /\ pc = "opt_ready"
    /\ state_step < MaxOptSteps
    /\ lr_scheduled' = update_lr(state_step, lr, warmup_steps, max_steps)
    /\ state_step' = state_step + 1
    /\ UNCHANGED <<pc, lr, warmup_steps, max_steps, encVars, truncVars,
                   resumeVars, loadVars, drawVars, genVars, cacheVars, tokVars,
                   file, random_file, spanVars>>

LrNext == BA_Step

LrSpec == LrInit /\ [][LrNext]_vars

(* C28: with 0 <= warmup_steps <= max_steps, the rate scheduled for any   *)
(* step >= 0 is in [0, lr]; it is 0 for every step >= max_steps when      *)
(* max_steps > 0, and lr for every step when max_steps = 0.               *)
C28_RateWithinBounds ==
    [][warmup_steps <= max_steps =>
          LET rate == lr_scheduled'
              step == state_step
          IN  /\ rate[2] > 0
              /\ rate[1] >= 0
              /\ rate[1] <= lr * rate[2]
              /\ (max_steps > 0 /\ step >= max_steps => rate[1] = 0)
              /\ (max_steps = 0 => rate[1] = lr * rate[2])]_vars

(* past warmup and before max_steps the rate scheduled lies strictly      *)
(* between 0 and lr                                                       *)
C28_Witness ==
    /\ warmup_steps > 0 /\ warmup_steps < max_steps
    /\ state_step - 1 >= warmup_steps
    /\ state_step - 1 < max_steps
    /\ lr_scheduled[1] > 0
    /\ lr_scheduled[1] < lr * lr_scheduled[2]

====
